---- MODULE Spec2Model ----
(***************************************************************************)
(* Model of src/main.py: CloudWatchLogger, DockerRunner and                *)
(* DockerCloudWatchLogger.run_container_and_log, together with the two     *)
(* services the program talks to (the CloudWatch Logs API and the Docker   *)
(* container that produces the log stream) and the user's Ctrl-C.          *)
(***************************************************************************)
EXTENDS Integers, Sequences, FiniteSets, TLC

VARIABLES
  pc,            \* position of run_container_and_log (see PcValues)
  ending,        \* how the process ended, "running" while it has not
  exit_status,   \* process exit status, -1 while the process runs
  interrupted,   \* a KeyboardInterrupt has been raised in the main thread
  log_groups,    \* CloudWatch: group name -> number of groups of that name
  log_streams,   \* CloudWatch: <<group, stream>> -> number of such streams
  log_events,    \* CloudWatch: batches stored by put_log_events, in order
  launched,      \* the container exists (containers.run created it)
  exited,        \* the container's process has exited
  stopped,       \* number of container.stop() calls
  output,        \* chunks the container has written so far, in order
  nread,         \* chunks the logs(stream=True, follow=True) generator yielded
  log_line,      \* the loop variable: the chunk in hand (bytes)
  calls,         \* batches passed to send_logs_to_cloudwatch, in call order
  outcomes,      \* how each of those calls resolved, in call order
  ops,           \* operations performed by the run, in order
  clock,         \* time.time() in milliseconds, as last read by the run
  stamps,        \* timestamps of the events of each call, in call order
  ensure_log     \* record of every create_or_get_* call and how it ended

vars == <<pc, ending, exit_status, interrupted, log_groups, log_streams,
          log_events, launched, exited, stopped, output, nread, log_line,
          calls, outcomes, ops, clock, stamps, ensure_log>>

sinkVars == <<log_groups, log_streams, log_events>>
workloadVars == <<launched, exited, stopped, output, nread>>
runVars == <<pc, ending, exit_status, interrupted, log_line, calls, outcomes, ops,
            clock, stamps>>

----------------------------------------------------------------------------
(* Bounds of the model *)

MaxChunks == 2        \* chunks one container writes
MaxEnsureCalls == 4   \* create_or_get_* calls made on one client
MaxClock == 1         \* milliseconds the clock advances during one run

(* The chunks a container writes, as bytes (10 "\n", 13 "\r", 97 "a", 98 "b", *)
(* 99 "c"): nothing, one line, two lines, a line without its newline, an     *)
(* empty line, a CRLF line followed by a partial one, a bare CR inside.      *)
Chunks ==
  { << >>,
    <<97, 10>>,
    <<98, 10, 99, 10>>,
    <<97, 98>>,
    <<10>>,
    <<97, 13, 10, 98>>,
    <<99, 13, 98, 10>> }

GroupNames == {"g1", "g2"}
StreamNames == {"s1"}

(* --aws-cloudwatch-group and --aws-cloudwatch-stream of this run *)
aws_cloudwatch_group == "g1"
aws_cloudwatch_stream == "s1"

----------------------------------------------------------------------------
(* log_line.decode("utf-8").splitlines() *)

(* bytes.decode("utf-8") on ASCII bytes: one character per byte *)
Chr(b) ==
  CASE b = 10 -> "\n"
    [] b = 13 -> "\r"
    [] b = 97 -> "a"
    [] b = 98 -> "b"
    [] b = 99 -> "c"

decode(bytes) == [i \in 1..Len(bytes) |-> Chr(bytes[i])]

IsLineBreak(c) == c \in {"\n", "\r"}

(* Index of the first line break of s, Len(s) + 1 when there is none *)
FirstBreak(s) ==
  IF \E k \in 1..Len(s) : IsLineBreak(s[k])
  THEN CHOOSE k \in 1..Len(s) :
         /\ IsLineBreak(s[k])
         /\ \A j \in 1..(k - 1) : ~IsLineBreak(s[j])
  ELSE Len(s) + 1

(* str.splitlines(): lines without their terminators; "\r\n" is one          *)
(* terminator; a terminator at the very end opens no further (empty) line.   *)
RECURSIVE splitlines(_)
splitlines(s) ==
  IF Len(s) = 0 THEN << >>
  ELSE LET eol == FirstBreak(s)
           nxt == IF eol > Len(s) THEN eol
                  ELSE IF s[eol] = "\r" /\ eol < Len(s) /\ s[eol + 1] = "\n"
                       THEN eol + 2
                       ELSE eol + 1
       IN <<SubSeq(s, 1, eol - 1)>> \o splitlines(SubSeq(s, nxt, Len(s)))

LogLinesDropPartial(chunk) ==
  LET s == decode(chunk)
      ends == {k \in 1..Len(s) : IsLineBreak(s[k])}
      last == IF ends = {} THEN 0 ELSE CHOOSE k \in ends : \A j \in ends : j <= k
  IN splitlines(SubSeq(s, 1, last))

LogLinesUnsplit(chunk) ==
  LET s == decode(chunk)
  IN IF Len(s) = 0 THEN << >> ELSE <<s>>

(* Line 96: the batch built from one chunk *)
LogLines(chunk) == splitlines(decode(chunk))

----------------------------------------------------------------------------
(* The CloudWatch Logs service, as the client of CloudWatchLogger sees it *)

(* create_log_group(logGroupName=name): the response of the service.         *)
(* fault: the service rejects the request for another reason (credentials,  *)
(* throttling, unavailable).                                                 *)
CreateLogGroupResponse(name, fault) ==
  IF fault THEN "ServiceError"
  ELSE IF log_groups[name] > 0 THEN "ResourceAlreadyExistsException"
  ELSE "Created"

(* create_log_stream(logGroupName=group, logStreamName=name) *)
CreateLogStreamResponse(group, name, fault) ==
  IF fault THEN "ServiceError"
  ELSE IF log_groups[group] = 0 THEN "ResourceNotFoundException"
  ELSE IF log_streams[<<group, name>>] > 0 THEN "ResourceAlreadyExistsException"
  ELSE "Created"

(* put_log_events: what the client call can end with *)
PutLogEventsResponses == {"ok", "NoCredentialsError", "ClientError"}

----------------------------------------------------------------------------
(* CloudWatchLogger *)

EnsureReturnsUncaught(resp) == resp = "Created"

EnsureReturnsAnyError(resp) == TRUE

(* create_or_get_log_group / create_or_get_log_stream return normally when   *)
(* the create call returned, or raised ResourceAlreadyExistsException (the  *)
(* except clause with pass); any other exception leaves the method.         *)
EnsureReturns(resp) ==
  \/ resp = "Created"
  \/ resp = "ResourceAlreadyExistsException"

(* create_or_get_log_group(group_name) *)
create_or_get_log_group(name, fault) ==
  LET resp == CreateLogGroupResponse(name, fault)
  IN /\ log_groups' = IF resp = "Created"
                       THEN [log_groups EXCEPT ![name] = @ + 1]
                       ELSE log_groups
     /\ ensure_log' = Append(ensure_log,
                         [op |-> "ensure_collection", name |-> <<name>>,
                          existed |-> log_groups[name] > 0,
                          response |-> resp, returned |-> EnsureReturns(resp)])

(* create_or_get_log_stream(group_name, stream_name) *)
create_or_get_log_stream(group, name, fault) ==
  LET resp == CreateLogStreamResponse(group, name, fault)
  IN /\ log_streams' = IF resp = "Created"
                        THEN [log_streams EXCEPT ![<<group, name>>] = @ + 1]
                        ELSE log_streams
     /\ ensure_log' = Append(ensure_log,
                         [op |-> "ensure_substream", name |-> <<group, name>>,
                          existed |-> log_streams[<<group, name>>] > 0,
                          response |-> resp, returned |-> EnsureReturns(resp)])

AppendDispositionAuthExitsZero(resp) ==
  CASE resp = "ok" -> [pc |-> "pull", ending |-> "running", exit_status |-> -1]
    [] resp = "NoCredentialsError" ->
         [pc |-> "done", ending |-> "auth_error", exit_status |-> 0]
    [] OTHER -> [pc |-> "done", ending |-> "sink_error", exit_status |-> 1]

AppendDispositionAuthContinues(resp) ==
  IF resp \in {"ok", "NoCredentialsError"}
  THEN [pc |-> "pull", ending |-> "running", exit_status |-> -1]
  ELSE [pc |-> "done", ending |-> "sink_error", exit_status |-> 1]

(* Where send_logs_to_cloudwatch leaves the run, by what put_log_events did: *)
(* it returns and the loop goes on; NoCredentialsError is caught, a message  *)
(* printed and exit(1) called (SystemExit leaves the loop, which catches     *)
(* KeyboardInterrupt only); any other exception is not caught anywhere and   *)
(* ends the process with a traceback and status 1.                           *)
AppendDisposition(resp) ==
  CASE resp = "ok" -> [pc |-> "pull", ending |-> "running", exit_status |-> -1]
    [] resp = "NoCredentialsError" ->
         [pc |-> "done", ending |-> "auth_error", exit_status |-> 1]
    [] OTHER -> [pc |-> "done", ending |-> "sink_error", exit_status |-> 1]

----------------------------------------------------------------------------
(* The container and its log stream *)

(* The container writes one more chunk *)
WorkloadEmit ==
  /\ launched /\ ~exited
  /\ Len(output) < MaxChunks
  /\ \E c \in Chunks : output' = Append(output, c)
  /\ UNCHANGED <<launched, exited, stopped, nread>>
  /\ UNCHANGED <<sinkVars, runVars, ensure_log>>

(* The container's process exits on its own *)
WorkloadExit ==
  /\ launched /\ ~exited
  /\ exited' = TRUE
  /\ UNCHANGED <<launched, stopped, output, nread>>
  /\ UNCHANGED <<sinkVars, runVars, ensure_log>>

StreamEndedAtExit == exited

StreamEndedNever == FALSE

(* logs(stream=True, follow=True) ends once the process has exited and every *)
(* chunk it wrote has been yielded                                           *)
StreamEnded == exited /\ nread = Len(output)

(* Another client of the service creates the group of this run *)
OtherCreatesGroup(name) ==
  /\ log_groups[name] = 0
  /\ log_groups' = [log_groups EXCEPT ![name] = 1]
  /\ UNCHANGED <<log_streams, log_events, workloadVars, runVars, ensure_log>>

OtherCreatesStream(group, name) ==
  /\ log_groups[group] > 0
  /\ log_streams[<<group, name>>] = 0
  /\ log_streams' = [log_streams EXCEPT ![<<group, name>>] = 1]
  /\ UNCHANGED <<log_groups, log_events, workloadVars, runVars, ensure_log>>

----------------------------------------------------------------------------
(* DockerCloudWatchLogger.run_container_and_log *)

PcValues == {"ensure_group", "ensure_stream", "start", "pull", "split",
             "sending", "except", "done"}

Last(s) == s[Len(s)]

(* The run ends: the position, the cause and the process exit status *)
Finish(cause, status) ==
  /\ pc' = "done"
  /\ ending' = cause
  /\ exit_status' = status

(* Line 88 *)
EnsureCollection ==
  /\ pc = "ensure_group"
  /\ \E fault \in BOOLEAN :
       /\ create_or_get_log_group(aws_cloudwatch_group, fault)
       /\ IF EnsureReturns(CreateLogGroupResponse(aws_cloudwatch_group, fault))
          THEN pc' = "ensure_stream" /\ UNCHANGED <<ending, exit_status>>
          ELSE Finish("setup_error", 1)
  /\ ops' = Append(ops, "ensure_collection")
  /\ UNCHANGED <<log_streams, log_events, workloadVars, interrupted, log_line,
                 calls, outcomes, clock, stamps>>

(* Lines 89-91 *)
EnsureSubstream ==
  /\ pc = "ensure_stream"
  /\ \E fault \in BOOLEAN :
       /\ create_or_get_log_stream(aws_cloudwatch_group, aws_cloudwatch_stream, fault)
       /\ IF EnsureReturns(CreateLogStreamResponse(aws_cloudwatch_group,
                                                   aws_cloudwatch_stream, fault))
          THEN pc' = "start" /\ UNCHANGED <<ending, exit_status>>
          ELSE Finish("setup_error", 1)
  /\ ops' = Append(ops, "ensure_substream")
  /\ UNCHANGED <<log_groups, log_events, workloadVars, interrupted, log_line,
                 calls, outcomes, clock, stamps>>

(* Line 93, DockerRunner.run_container: containers.run(..., detach=True)     *)
(* returns the container, or raises (image not found, daemon unreachable).  *)
Start ==
  /\ pc = "start"
  /\ \E ok \in BOOLEAN :
       IF ok
       THEN /\ launched' = TRUE
            /\ pc' = "pull"
            /\ UNCHANGED <<ending, exit_status>>
       ELSE /\ UNCHANGED launched
            /\ Finish("launch_error", 1)
  /\ ops' = Append(ops, "start")
  /\ UNCHANGED <<sinkVars, exited, stopped, output, nread, interrupted, log_line,
                 calls, outcomes, clock, stamps, ensure_log>>

NextChunkSkipping == output[Len(output)]

(* The chunk the generator yields next *)
NextChunk == output[nread + 1]

PullCountSkipping == Len(output)

(* Chunks yielded once the next one has been *)
PullCount == nread + 1

(* Line 95: the for statement receives the next chunk *)
Pull ==
  /\ pc = "pull"
  /\ nread < Len(output)
  /\ log_line' = NextChunk
  /\ nread' = PullCount
  /\ pc' = "split"
  /\ ops' = Append(ops, "pull")
  /\ UNCHANGED <<sinkVars, launched, exited, stopped, output, ending, exit_status,
                 interrupted, calls, outcomes, clock, stamps, ensure_log>>

StopCallsAtEndFinally == stopped + 1

(* container.stop() calls once the loop has ended by itself: the except      *)
(* clause is not entered and nothing else stops the container                *)
StopCallsAtEnd == stopped

(* Line 95: the generator is exhausted, the loop and the method return and   *)
(* main() with them: the process exits with status 0.                       *)
EndOfStream ==
  /\ pc = "pull"
  /\ StreamEnded
  /\ stopped' = StopCallsAtEnd
  /\ ops' = IF stopped' > stopped THEN Append(ops, "terminate") ELSE ops
  /\ Finish("natural", 0)
  /\ UNCHANGED <<sinkVars, launched, exited, output, nread, interrupted, log_line,
                 calls, outcomes, clock, stamps, ensure_log>>

PcAfterCallAsync == "pull"

(* Lines 97-99: the call is synchronous, the loop waits in it until         *)
(* put_log_events has resolved                                              *)
PcAfterCall == "sending"

TimestampsNewestFirst(from, n) ==
  {ts \in [1..n -> from..MaxClock] : \A i \in 1..(n - 1) : ts[i] >= ts[i + 1]}

(* Lines 47-50: int(time.time() * 1000) is evaluated once for each line, in *)
(* line order, while the list is built; the clock read is at or after the   *)
(* last reading and does not go back between two readings.                  *)
Timestamps(from, n) ==
  {ts \in [1..n -> from..MaxClock] : \A i \in 1..(n - 1) : ts[i] <= ts[i + 1]}

(* Lines 96-98: split the chunk and call send_logs_to_cloudwatch with the   *)
(* batch, which stamps each line (lines 47-50)                              *)
CallAppend ==
  /\ pc = "split"
  /\ calls' = Append(calls, LogLines(log_line))
  /\ \E ts \in Timestamps(clock, Len(LogLines(log_line))) :
       /\ stamps' = Append(stamps, ts)
       /\ clock' = IF Len(ts) = 0 THEN clock ELSE ts[Len(ts)]
  /\ pc' = PcAfterCall
  /\ ops' = Append(ops, "append")
  /\ UNCHANGED <<sinkVars, workloadVars, ending, exit_status, interrupted,
                 log_line, outcomes, ensure_log>>

(* Lines 43-54: put_log_events resolves *)
AppendReturn ==
  /\ pc = "sending"
  /\ \E resp \in PutLogEventsResponses :
       /\ outcomes' = Append(outcomes, resp)
       /\ log_events' = IF resp = "ok" THEN Append(log_events, Last(calls))
                        ELSE log_events
       /\ pc' = AppendDisposition(resp).pc
       /\ ending' = AppendDisposition(resp).ending
       /\ exit_status' = AppendDisposition(resp).exit_status
  /\ UNCHANGED <<log_groups, log_streams, workloadVars, interrupted, log_line,
                 calls, ops, clock, stamps, ensure_log>>

InTryNotBlocked(p) == p \in {"split", "sending"}

InTryAlways(p) == TRUE

(* The positions inside the try block of lines 94-99 *)
InTry(p) == p \in {"pull", "split", "sending"}

(* Ctrl-C: KeyboardInterrupt is raised in the main thread wherever it is.    *)
(* Inside the try block the except clause of line 100 takes it; before the  *)
(* try block nothing catches it and the process dies of it (status 130).   *)
(* A put_log_events request in flight may or may not have been stored, a   *)
(* containers.run in flight may or may not have created the container.     *)
KeyboardInterrupt ==
  /\ ~interrupted
  /\ pc # "done"
  /\ interrupted' = TRUE
  /\ IF InTry(pc)
     THEN /\ pc' = "except"
          /\ UNCHANGED <<ending, exit_status>>
     ELSE Finish("unhandled_interrupt", 130)
  /\ IF pc = "sending"
     THEN /\ outcomes' = Append(outcomes, "KeyboardInterrupt")
          /\ \E stored \in BOOLEAN :
               log_events' = IF stored THEN Append(log_events, Last(calls))
                             ELSE log_events
     ELSE UNCHANGED <<outcomes, log_events>>
  /\ IF pc = "start"
     THEN \E created \in BOOLEAN : launched' = created
     ELSE UNCHANGED launched
  /\ UNCHANGED <<log_groups, log_streams, exited, stopped, output, nread,
                 log_line, calls, ops, clock, stamps, ensure_log>>

StopCallsNone == stopped

StopCallsTwice == stopped + 2

(* container.stop() calls once the handler has run *)
StopCalls == stopped + 1

(* Lines 100-102: print the notice and stop the container; the method and  *)
(* main() return, the process exits with status 0.                         *)
ExceptHandler ==
  /\ pc = "except"
  /\ stopped' = StopCalls
  /\ exited' = (exited \/ stopped' > 0)
  /\ ops' = IF stopped' > stopped THEN Append(ops, "terminate") ELSE ops
  /\ Finish("interrupted", 0)
  /\ UNCHANGED <<sinkVars, launched, output, nread, interrupted, log_line,
                 calls, outcomes, clock, stamps, ensure_log>>

----------------------------------------------------------------------------
Init ==
  /\ pc = "ensure_group"
  /\ ending = "running"
  /\ exit_status = -1
  /\ interrupted = FALSE
  /\ log_groups = [n \in GroupNames |-> 0]
  /\ log_streams = [p \in GroupNames \X StreamNames |-> 0]
  /\ log_events = << >>
  /\ launched = FALSE
  /\ exited = FALSE
  /\ stopped = 0
  /\ output = << >>
  /\ nread = 0
  /\ log_line = << >>
  /\ calls = << >>
  /\ outcomes = << >>
  /\ ops = << >>
  /\ clock = 0
  /\ stamps = << >>
  /\ ensure_log = << >>

Next ==
  \/ EnsureCollection
  \/ EnsureSubstream
  \/ Start
  \/ Pull
  \/ EndOfStream
  \/ CallAppend
  \/ AppendReturn
  \/ KeyboardInterrupt
  \/ ExceptHandler
  \/ WorkloadEmit
  \/ WorkloadExit
  \/ OtherCreatesGroup(aws_cloudwatch_group)
  \/ OtherCreatesStream(aws_cloudwatch_group, aws_cloudwatch_stream)

Spec == Init /\ [][Next]_vars

(* The interpreter keeps executing the method: a step of the loop or of the *)
(* handler that can be taken is taken, and a put_log_events call in flight  *)
(* resolves. Nothing is assumed of the container, the user or other clients.*)
SpecLive ==
  /\ Spec
  /\ WF_vars(Pull)
  /\ WF_vars(CallAppend)
  /\ WF_vars(AppendReturn)
  /\ WF_vars(EndOfStream)
  /\ WF_vars(ExceptHandler)

----------------------------------------------------------------------------
(* The two create_or_get_* methods called on their own, any number of times  *)
(* and with any names, next to other clients creating the same resources.    *)

CallEnsureCollection ==
  /\ Len(ensure_log) < MaxEnsureCalls
  /\ \E name \in GroupNames, fault \in BOOLEAN :
       create_or_get_log_group(name, fault)
  /\ UNCHANGED <<log_streams, log_events, workloadVars, runVars>>

CallEnsureSubstream ==
  /\ Len(ensure_log) < MaxEnsureCalls
  /\ \E group \in GroupNames, name \in StreamNames, fault \in BOOLEAN :
       create_or_get_log_stream(group, name, fault)
  /\ UNCHANGED <<log_groups, log_events, workloadVars, runVars>>

OtherClientCreatesGroup == \E name \in GroupNames : OtherCreatesGroup(name)

OtherClientCreatesStream ==
  \E group \in GroupNames, name \in StreamNames : OtherCreatesStream(group, name)

NextEnsure ==
  \/ CallEnsureCollection
  \/ CallEnsureSubstream
  \/ OtherClientCreatesGroup
  \/ OtherClientCreatesStream

SpecEnsure == Init /\ [][NextEnsure]_vars

----------------------------------------------------------------------------
(* Properties *)

RECURSIVE Flatten(_)
Flatten(batches) ==
  IF Len(batches) = 0 THEN << >>
  ELSE Head(batches) \o Flatten(Tail(batches))

(* The lines of the first n chunks the container wrote, in delivery order *)
LinesOfChunks(n) == Flatten([i \in 1..n |-> splitlines(decode(output[i]))])

OutcomesAllOk == \A i \in DOMAIN outcomes : outcomes[i] = "ok"

AuthFailed == \E i \in DOMAIN outcomes : outcomes[i] = "NoCredentialsError"

(* C1: the batches passed to the successive send_logs_to_cloudwatch calls,   *)
(* concatenated, are the lines of the chunks in delivery order: the k calls  *)
(* made so far carry exactly the lines of the first k chunks, in order.      *)
C1_Ordering ==
  /\ Len(calls) <= Len(output)
  /\ Flatten(calls) = LinesOfChunks(Len(calls))

(* Two chunks have been forwarded, the second one with several lines *)
C1_Witness ==
  /\ Len(calls) = 2
  /\ Len(calls[1]) >= 1
  /\ Len(calls[2]) >= 2
  /\ calls[1] # SubSeq(calls[2], 1, 1)

C3_FatalOnAuth ==
  [][AuthFailed => /\ pc = "done" /\ pc' = "done"
                   /\ calls' = calls
                   /\ nread' = nread
                   /\ log_events' = log_events]_vars

(* The first append was rejected while a second chunk waits unread *)
C3_Witness ==
  /\ AuthFailed
  /\ Len(calls) = 1
  /\ nread = 1
  /\ Len(output) = 2
  /\ exit_status = 1

(* C4: a KeyboardInterrupt raised inside the loop is followed by             *)
(* container.stop() and by no further append call or pull: from the moment  *)
(* the except clause is entered no call is added and no chunk is read, and  *)
(* the handler ends the run having stopped the container.                   *)
C4_Interrupt ==
  [][/\ pc = "except" => /\ calls' = calls
                         /\ nread' = nread
                         /\ pc' \in {"except", "done"}
                         /\ pc' = "done" => /\ stopped' = stopped + 1
                                            /\ Last(ops') = "terminate"
                                            /\ exited'
     /\ ending = "interrupted" => /\ calls' = calls
                                  /\ nread' = nread]_vars

(* The run was interrupted in the loop while a chunk was still unread: the  *)
(* container was stopped and the chunk dropped                              *)
C4_Witness ==
  /\ ending = "interrupted"
  /\ stopped = 1
  /\ Len(calls) = 1
  /\ nread < Len(output)

(* C5: create_or_get_log_group and create_or_get_log_stream are idempotent:  *)
(* a call for a resource that already exists (created by an earlier call or *)
(* by another client), answered ResourceAlreadyExistsException by the       *)
(* service, returns normally, and the service never holds two groups or two *)
(* streams of one name.                                                     *)
C5_Idempotent ==
  /\ \A i \in DOMAIN ensure_log :
       /\ ensure_log[i].response = "ResourceAlreadyExistsException"
            => ensure_log[i].returned
       /\ (ensure_log[i].existed /\ ensure_log[i].response # "ServiceError")
            => ensure_log[i].returned
       /\ ensure_log[i].response = "Created" => ensure_log[i].returned
  /\ \A n \in GroupNames : log_groups[n] <= 1
  /\ \A q \in GroupNames \X StreamNames : log_streams[q] <= 1

(* The same group ensured twice and its stream twice: all four calls return *)
C5_Witness ==
  /\ Len(ensure_log) = 4
  /\ ensure_log[1].op = "ensure_collection" /\ ensure_log[1].response = "Created"
  /\ ensure_log[2].op = "ensure_collection" /\ ensure_log[2].name = ensure_log[1].name
  /\ ensure_log[2].existed /\ ensure_log[2].returned
  /\ ensure_log[3].op = "ensure_substream" /\ ensure_log[3].response = "Created"
  /\ ensure_log[4].op = "ensure_substream" /\ ensure_log[4].name = ensure_log[3].name
  /\ ensure_log[4].existed /\ ensure_log[4].returned
  /\ log_groups[ensure_log[1].name[1]] = 1
  /\ log_streams[ensure_log[3].name] = 1

(* C6: an append failure other than rejected credentials is not fatal: the  *)
(* batch is lost and the loop goes on, so the run is never over while the   *)
(* last append (of a batch with lines in it) failed that way, a chunk is    *)
(* still unread and no interrupt was raised.                                *)
C6_SinkErrorNonFatal ==
  (/\ Len(outcomes) > 0
   /\ Last(outcomes) = "ClientError"
   /\ Len(calls[Len(outcomes)]) > 0
   /\ nread < Len(output)
   /\ ~interrupted)
    => pc # "done"

(* The lines of a chunk, told without splitlines: no line holds a line      *)
(* break, the lines joined are the chunk without its line breaks, and there *)
(* is one line per terminator ("\r\n" counting once) plus one for text left *)
(* after the last terminator.                                               *)
IsBatchOf(batch, text) ==
  LET terminators == {k \in 1..Len(text) :
                        /\ IsLineBreak(text[k])
                        /\ ~(text[k] = "\n" /\ k > 1 /\ text[k - 1] = "\r")}
      partial == IF Len(text) > 0 /\ ~IsLineBreak(text[Len(text)]) THEN 1 ELSE 0
      NotBreak(c) == ~IsLineBreak(c)
  IN /\ \A i \in DOMAIN batch : \A k \in DOMAIN batch[i] : ~IsLineBreak(batch[i][k])
     /\ Flatten(batch) = SelectSeq(text, NotBreak)
     /\ Len(batch) = Cardinality(terminators) + partial

C8_EmptyRun ==
  (pc = "done" /\ launched /\ exited /\ output = << >> /\ ~interrupted)
    => /\ calls = << >>
       /\ stopped = 0
       /\ "terminate" \notin {ops[i] : i \in DOMAIN ops}
       /\ exit_status = 0

(* The run ended after a container that wrote nothing *)
C8_Witness ==
  /\ pc = "done" /\ launched /\ exited /\ output = << >> /\ ~interrupted
  /\ ending = "natural"

LaunchFailed == pc = "done" /\ Len(ops) > 0 /\ Last(ops) = "start" /\ ~launched

(* C9: the exit status is 0 exactly when the run ended by the end of the    *)
(* stream or by the except KeyboardInterrupt handler; it is not 0 after a   *)
(* NoCredentialsError from an append and after a failed launch.             *)
C9_ExitStatus ==
  /\ pc = "done" <=> exit_status # -1
  /\ pc = "done" =>
       /\ exit_status = 0 <=>
            \/ ~interrupted /\ launched /\ StreamEnded /\ OutcomesAllOk
                 /\ Len(outcomes) = nread
            \/ interrupted /\ stopped = 1 /\ Last(ops) = "terminate"
       /\ AuthFailed => exit_status # 0
       /\ LaunchFailed => exit_status # 0

(* A run that ended with a rejected append after an accepted one *)
C9_Witness ==
  /\ pc = "done"
  /\ outcomes = <<"ok", "NoCredentialsError">>
  /\ exit_status = 1

ResponseOk(e) == e.response \in {"Created", "ResourceAlreadyExistsException"}

(* C10: the run calls create_or_get_log_group, create_or_get_log_stream,    *)
(* run_container and then the appends, in that order, each only after the   *)
(* one before it succeeded; a step that fails is the last step of the run.  *)
C10_SetupOrder ==
  /\ \A i \in DOMAIN ops :
       /\ ops[i] = "ensure_collection" => i = 1
       /\ ops[i] = "ensure_substream" =>
            i = 2 /\ ops[1] = "ensure_collection" /\ ResponseOk(ensure_log[1])
       /\ ops[i] = "start" =>
            /\ i = 3 /\ ops[2] = "ensure_substream"
            /\ Len(ensure_log) = 2
            /\ ResponseOk(ensure_log[1]) /\ ResponseOk(ensure_log[2])
       /\ ops[i] \in {"pull", "append", "terminate"} =>
            i > 3 /\ ops[3] = "start" /\ launched
  /\ Len(ensure_log) = Cardinality({i \in DOMAIN ops :
                                      ops[i] \in {"ensure_collection",
                                                  "ensure_substream"}})
  /\ \A i \in DOMAIN ensure_log :
       ~ResponseOk(ensure_log[i]) =>
          pc = "done" /\ exit_status # 0 /\ Len(ops) = i /\ ~launched
  /\ (~launched /\ Len(ops) = 3) =>
       pc = "done" /\ exit_status # 0 /\ calls = << >>

(* The stream could not be created in the group just created: the run ended *)
(* there, without a container                                               *)
C10_Witness ==
  /\ Len(ensure_log) = 2
  /\ ensure_log[1].response = "Created"
  /\ ensure_log[2].response = "ServiceError"
  /\ ops = <<"ensure_collection", "ensure_substream">>
  /\ pc = "done"

(* C11: a run that fails fatally on a rejected append, its container         *)
(* started, stops the container (best effort) before it exits non-zero.     *)
C11_StopOnFatal ==
  (pc = "done" /\ AuthFailed /\ launched) => stopped >= 1

(* C12: pull and append alternate without overlap: at most one append is in *)
(* flight, a chunk is pulled and a call is started only when every earlier  *)
(* call has resolved, and each call follows the pull of its own chunk.      *)
C12_Alternation ==
  [][/\ Len(calls') - Len(outcomes') \in {0, 1}
     /\ pc' = "pull" => Len(outcomes') = Len(calls') /\ Len(calls') = nread'
     /\ nread' # nread => /\ Len(outcomes) = Len(calls)
                          /\ Len(calls) = nread
                          /\ nread' = nread + 1
     /\ calls' # calls => /\ Len(outcomes) = Len(calls)
                          /\ Len(calls') = nread
                          /\ Last(ops) = "pull"
     /\ outcomes' # outcomes => Len(outcomes') = Len(calls)]_vars

(* The second chunk's append is in flight after the first one resolved *)
C12_Witness ==
  /\ pc = "sending"
  /\ Len(calls) = 2
  /\ Len(outcomes) = 1
  /\ ops = <<"ensure_collection", "ensure_substream", "start",
             "pull", "append", "pull", "append">>

(* C13: when the stream ends because the container exited, the run ends      *)
(* without container.stop(); stop is called on the KeyboardInterrupt path   *)
(* only.                                                                    *)
C13_StopOnlyOnInterrupt ==
  /\ (pc = "done" /\ ending = "natural") =>
        /\ stopped = 0
        /\ \A i \in DOMAIN ops : ops[i] # "terminate"
        /\ exited /\ nread = Len(output)
  /\ stopped > 0 => interrupted /\ ending = "interrupted"
  /\ (\E i \in DOMAIN ops : ops[i] = "terminate") => interrupted

(* The stream ended by itself after chunks were forwarded: no stop *)
C13_Witness ==
  /\ pc = "done" /\ ending = "natural"
  /\ Len(calls) >= 1
  /\ stopped = 0
  /\ ~interrupted

(* The KeyboardInterrupt was raised while the loop waited for the next chunk *)
(* of a container that is alive and has nothing unread                      *)
InterruptedWhileBlocked ==
  /\ interrupted
  /\ Len(ops) >= 3 /\ ops[3] = "start" /\ launched
  /\ Len(outcomes) = Len(calls)
  /\ Len(calls) = nread
  /\ nread = Len(output)
  /\ ~exited

(* C14: a KeyboardInterrupt raised while the loop is blocked waiting for a  *)
(* chunk is reacted to without a further chunk: the run reaches its end     *)
(* with container.stop() called and no further chunk read, whether or not   *)
(* the container ever writes again.                                         *)
C14_InterruptWhileBlocked ==
  \A k \in 0..MaxChunks :
    (InterruptedWhileBlocked /\ nread = k)
      ~> (pc = "done" /\ stopped = 1 /\ nread = k /\ Len(calls) = k)

(* Interrupted while waiting after one chunk was forwarded; the container   *)
(* wrote nothing more and was stopped                                       *)
C14_Witness ==
  /\ pc = "done" /\ ending = "interrupted"
  /\ Len(output) = 1 /\ nread = 1
  /\ outcomes = <<"ok">>
  /\ stopped = 1

(* C17: once the container has exited (its stream is finite) the run         *)
(* reaches its end, given that every append call resolves.                  *)
C17_Terminates == exited ~> pc = "done"

(* The run ended by itself after the container wrote two chunks and exited *)
C17_Witness ==
  /\ pc = "done" /\ ending = "natural"
  /\ exited
  /\ Len(output) = 2 /\ nread = 2
  /\ Len(outcomes) = 2

(* The orchestrator state of the run, by its position. The code has no      *)
(* Draining step of its own: the end of the loop is the return.             *)
State(p) ==
  CASE p \in {"ensure_group", "ensure_stream"} -> "Idle"
    [] p = "start" -> "SinkReady"
    [] p \in {"pull", "split", "sending"} -> "Running"
    [] p = "except" -> "Interrupted"
    [] p = "done" -> "Terminated"

Rank(st) ==
  CASE st = "Idle" -> 0
    [] st = "SinkReady" -> 1
    [] st = "Running" -> 2
    [] st = "Interrupted" -> 3
    [] st = "Terminated" -> 4

(* C15: the state moves forward only, along Idle, SinkReady, Running,       *)
(* Interrupted or the end of the stream, Terminated: a step that changes    *)
(* the state goes to the next state of that order (from Running to          *)
(* Terminated by the natural end of the stream only), unless the step       *)
(* fails and the process dies with a non-zero status; no state is entered   *)
(* again, and in Terminated no operation is performed.                      *)
C15_StateOrder ==
  [][/\ Rank(State(pc')) >= Rank(State(pc))
     /\ (State(pc') # State(pc) /\ ~(pc' = "done" /\ exit_status' # 0)) =>
          \/ State(pc) = "Idle" /\ State(pc') = "SinkReady"
          \/ State(pc) = "SinkReady" /\ State(pc') = "Running"
          \/ State(pc) = "Running" /\ State(pc') = "Interrupted"
          \/ /\ State(pc) = "Running" /\ State(pc') = "Terminated"
             /\ exited /\ nread = Len(output) /\ exit_status' = 0
          \/ State(pc) = "Interrupted" /\ State(pc') = "Terminated"
     /\ State(pc) = "Terminated" =>
          /\ pc' = "done"
          /\ exit_status' = exit_status
          /\ ops' = ops
          /\ ensure_log' = ensure_log
          /\ calls' = calls
          /\ nread' = nread
          /\ stopped' = stopped
          /\ log_events' = log_events]_vars

(* A run that went through every state: two chunks forwarded, interrupted,  *)
(* stopped, ended                                                           *)
C15_Witness ==
  /\ pc = "done" /\ ending = "interrupted"
  /\ Len(calls) = 2
  /\ log_events = calls
  /\ Last(ops) = "terminate"

(* The text of a chunk after its last line break (all of it without one) *)
PartialTail(text) ==
  LET ends == {k \in 1..Len(text) : IsLineBreak(text[k])}
      last == IF ends = {} THEN 0 ELSE CHOOSE k \in ends : \A j \in ends : j <= k
  IN SubSeq(text, last + 1, Len(text))

(* The text of a chunk before its first line break (all of it without one) *)
HeadText(text) ==
  LET ends == {k \in 1..Len(text) : IsLineBreak(text[k])}
      first == IF ends = {} THEN Len(text) + 1
               ELSE CHOOSE k \in ends : \A j \in ends : k <= j
  IN SubSeq(text, 1, first - 1)

(* C16: a chunk that ends without a line break has the text after its last   *)
(* break forwarded as the last event of its own call, and the first event   *)
(* of every call is the start of its own chunk: nothing is carried from one *)
(* chunk to the next, so a line split over two chunks makes two events in   *)
(* two calls.                                                               *)
C16_PartialLine ==
  \A i \in DOMAIN calls :
    LET text == decode(output[i])
    IN /\ (Len(text) > 0 /\ ~IsLineBreak(text[Len(text)])) =>
            /\ Len(calls[i]) > 0
            /\ Last(calls[i]) = PartialTail(text)
            /\ Len(PartialTail(text)) > 0
       /\ Len(calls[i]) > 0 => calls[i][1] = HeadText(text)
       /\ Len(text) > 0 => Len(calls[i]) > 0

(* The line "aba" written as the chunks "ab" and "a\n": events "ab" and "a" *)
(* in two calls                                                             *)
C16_Witness ==
  /\ output = << <<97, 98>>, <<97, 10>> >>
  /\ calls = << << <<"a", "b">> >>, << <<"a">> >> >>
  /\ log_events = calls

(* C18: the events of a call are stamped from the clock when the call is     *)
(* made: one timestamp for each line, non-decreasing in line order, none    *)
(* later than the clock, and no timestamp of a later call is smaller than   *)
(* a timestamp of an earlier call.                                          *)
C18_Timestamps ==
  /\ Len(stamps) = Len(calls)
  /\ \A i \in DOMAIN stamps :
       /\ Len(stamps[i]) = Len(calls[i])
       /\ \A a \in DOMAIN stamps[i] :
            /\ stamps[i][a] <= clock
            /\ \A b \in DOMAIN stamps[i] : a <= b => stamps[i][a] <= stamps[i][b]
  /\ \A i \in DOMAIN stamps : \A j \in DOMAIN stamps :
       i < j => \A a \in DOMAIN stamps[i] : \A b \in DOMAIN stamps[j] :
                  stamps[i][a] <= stamps[j][b]

(* Two calls; the clock advanced between the two lines of the second one *)
C18_Witness ==
  /\ Len(stamps) = 2
  /\ Len(stamps[1]) = 1
  /\ Len(stamps[2]) = 2
  /\ stamps[1][1] <= stamps[2][1]
  /\ stamps[2][1] < stamps[2][2]

(* The run entered the loop: run_container returned the container *)
LoopEntered == Len(ops) >= 3 /\ ops[3] = "start" /\ launched

(* C19: a KeyboardInterrupt raised before the loop is entered (during the   *)
(* two create_or_get_* calls or run_container) is not handled: the run ends *)
(* with it, container.stop() is not called, no append call is made and the  *)
(* exit status is not 0.                                                    *)
C19_InterruptBeforeLoop ==
  (interrupted /\ ~LoopEntered) =>
     /\ pc = "done"
     /\ ending = "unhandled_interrupt"
     /\ exit_status \notin {-1, 0}
     /\ stopped = 0
     /\ \A i \in DOMAIN ops : ops[i] \notin {"terminate", "pull", "append"}
     /\ calls = << >>
     /\ nread = 0

(* Interrupted during run_container after the container was created: the   *)
(* container runs on and writes, nobody stops it                            *)
C19_Witness ==
  /\ interrupted
  /\ ops = <<"ensure_collection", "ensure_substream">>
  /\ launched /\ ~exited
  /\ Len(output) = 1
  /\ pc = "done"

(* C20: container.stop() is called at most once in a run, and only on the   *)
(* container that a successful run_container returned.                      *)
C20_StopOnce ==
  /\ stopped <= 1
  /\ Cardinality({i \in DOMAIN ops : ops[i] = "terminate"}) = stopped
  /\ stopped > 0 => LoopEntered
  /\ \A i \in DOMAIN ops : ops[i] = "terminate" =>
       /\ i = Len(ops)
       /\ \E j \in 1..(i - 1) : ops[j] = "start"

(* The container was stopped once, after it was started and a chunk forwarded *)
C20_Witness ==
  /\ stopped = 1
  /\ LoopEntered
  /\ Len(log_events) = 1
  /\ Last(ops) = "terminate"
  /\ nread = Len(output)

====
